---- MODULE Spec2Model ----
(***************************************************************************)
(* Model of the SudPraktika text pipelines:                                *)
(*   scripts/parse_criminal_code.py  CriminalCodeParser (segmenter, slug)  *)
(*   scripts/telegram_injector.py    TelegramInjector (classifier, slug,   *)
(*                                   intake run with the processed ledger) *)
(* A text is a sequence of Unicode code points (a Python str); the literal *)
(* each tuple of numbers stands for is given in the comment beside it.     *)
(***************************************************************************)
EXTENDS Integers, Sequences, FiniteSets, TLC

VARIABLES
    impl,       \* which create_slug is run: "parser" or "injector"
    title,      \* the title handed to create_slug
    titleRuns,  \* how many runs the title was assembled from
    slug,       \* create_slug(title)
    reslug,     \* create_slug(slug)
    slugPc,     \* "input" | "slugged" | "reslugged"
    text,       \* the post text handed to detect_articles
    textFrags,  \* how many fragments the text was assembled from
    context,    \* what _contextual_analysis(text.lower()) returned
    detected,   \* what detect_articles(text) returned
    classPc,    \* "input" | "done"
    doc,        \* the raw document text handed to parse_structure
    units,      \* the units the document was assembled from
    found,      \* articles: the groups of the matches of the pattern used
    processed,  \* processed_articles before the sort
    articles,   \* the article list parse_structure returned
    segPc,      \* "input" | "parsed"
    bot_token,       \* whether TELEGRAM_BOT_TOKEN is set
    processed_file,  \* _data/processed_posts.json: whether it exists, its list
    posts,           \* the posts get_channel_posts returned to this run
    processed_posts, \* the list load_processed_posts returned to this run
    new_processed,   \* the list the run appends to and saves
    position,        \* the index in posts of the post the loop is at
    classified,      \* the ids of the posts this run handed to detect_articles
    decisions,       \* the calls of create_decision_file in this run
    new_decisions,   \* the run's counter of decision files written
    runPc,           \* "idle" | "loop"
    result           \* what the last run returned: "none" | "True" | "False"

slugVars == <<impl, title, titleRuns, slug, reslug, slugPc>>
classVars == <<text, textFrags, context, detected, classPc>>
segVars == <<doc, units, found, processed, articles, segPc>>
runVars ==
    <<bot_token, processed_file, posts, processed_posts, new_processed,
      position, classified, decisions, new_decisions, runPc, result>>
vars == <<slugVars, classVars, segVars, runVars>>
\* what the steps of one pipeline leave alone: the other pipelines' state
notSlug == <<classVars, segVars, runVars>>
notClass == <<slugVars, segVars, runVars>>
notSeg == <<slugVars, classVars, runVars>>
notRun == <<slugVars, classVars, segVars>>

(***************************************************************************)
(* Bounds of the inputs                                                    *)
(***************************************************************************)
\* a title is made of at most MaxRuns runs of one repeated character
MaxRuns == 3
\* the length of a long run (a short run has length 1)
LongRun == 49
\* a post text is made of at most MaxFrags fragments
MaxFrags == 3
\* a document is made of at most MaxUnits units
MaxUnits == 3
\* and of at most MaxDocLen characters
MaxDocLen == 2060
MaxPostId == 2
MaxBatch == 2

(***************************************************************************)
(* Characters: Python's str methods and the re module's classes            *)
(***************************************************************************)
\* s[m-1:n] of Python: the characters at positions m..n that exist
Slice(s, m, n) ==
    LET a == IF m < 1 THEN 1 ELSE m
        b == IF n > Len(s) THEN Len(s) ELSE n
    IN  IF a > b THEN <<>> ELSE SubSeq(s, a, b)

\* re's \s on str patterns, which is also str.isspace() (str.strip())
IsSpace(c) ==
    \/ c = 32
    \/ (9 <= c /\ c <= 13)
    \/ (28 <= c /\ c <= 31)
    \/ c = 133 \/ c = 160 \/ c = 5760
    \/ (8192 <= c /\ c <= 8202)
    \/ c = 8232 \/ c = 8233 \/ c = 8239 \/ c = 8287 \/ c = 12288

\* re's \d restricted to the digits the inputs use (ASCII 0-9)
IsDigit(c) == c \in 48..57

\* str.lower() on one character: Latin A-Z, Cyrillic U+0400..U+042F, Ґ
Lower(c) ==
    IF c \in 65..90 THEN c + 32
    ELSE IF c \in 1040..1071 THEN c + 32
    ELSE IF c \in 1024..1039 THEN c + 80
    ELSE IF c = 1168 THEN 1169
    ELSE c

\* str.lower()
lower(s) == [i \in 1..Len(s) |-> Lower(s[i])]

\* the character classes the scans below stop at the end of
InClass(class, c) ==
    CASE class = "space" -> IsSpace(c)
      [] class = "hyphen" -> c = 45
      [] class = "digit" -> IsDigit(c)
      [] class = "line" -> c # 10 /\ ~IsDigit(c)

\* the length of the run of characters of the class that starts at a, within
\* s[a..b] (the range is halved, so that a long run is not a deep recursion)
RECURSIVE RunLength(_, _, _, _)
RunLength(s, a, b, class) ==
    IF a > b THEN 0
    ELSE IF ~InClass(class, s[a]) THEN 0
    ELSE IF a = b THEN 1
    ELSE LET m == (a + b) \div 2
             left == RunLength(s, a, m, class)
         IN  IF left < m - a + 1 THEN left
             ELSE left + RunLength(s, m + 1, b, class)

\* the length of the run of characters of the class that ends at b, within
\* s[a..b]
RECURSIVE RunLengthBack(_, _, _, _)
RunLengthBack(s, a, b, class) ==
    IF a > b THEN 0
    ELSE IF ~InClass(class, s[b]) THEN 0
    ELSE IF a = b THEN 1
    ELSE LET m == (a + b) \div 2
             right == RunLengthBack(s, m + 1, b, class)
         IN  IF right < b - m THEN right
             ELSE right + RunLengthBack(s, a, m, class)

\* the position after the whitespace run that starts at p
SkipSpaces(s, p) == p + RunLength(s, p, Len(s), "space")

\* the last position at or before p that is not whitespace (0 if none)
SkipSpacesBack(s, p) == p - RunLengthBack(s, 1, p, "space")

\* str.strip()
strip(s) == Slice(s, SkipSpaces(s, 1), SkipSpacesBack(s, Len(s)))

\* the position after the run of hyphens that starts at p
SkipHyphens(s, p) == p + RunLength(s, p, Len(s), "hyphen")

\* the last position at or before p that is not a hyphen (0 if none)
SkipHyphensBack(s, p) == p - RunLengthBack(s, 1, p, "hyphen")

\* str.strip('-')
strip_hyphens(s) == Slice(s, SkipHyphens(s, 1), SkipHyphensBack(s, Len(s)))

\* the positions 1..Len(s)
Positions(s) == [i \in 1..Len(s) |-> i]

\* re.sub(r'\s+', r, s) for a one-character replacement r: every maximal
\* whitespace run becomes r (the first character of a run is replaced, the
\* others are dropped)
sub_spaces(s, r) ==
    LET firsts == SelectSeq(Positions(s),
                     LAMBDA i : ~(IsSpace(s[i]) /\ i > 1 /\ IsSpace(s[i - 1])))
    IN  [j \in 1..Len(firsts) |->
            IF IsSpace(s[firsts[j]]) THEN r ELSE s[firsts[j]]]

\* re.sub(r'-+', '-', s)
sub_hyphens(s) ==
    LET firsts == SelectSeq(Positions(s),
                     LAMBDA i : ~(s[i] = 45 /\ i > 1 /\ s[i - 1] = 45))
    IN  [j \in 1..Len(firsts) |-> s[firsts[j]]]

(***************************************************************************)
(* create_slug (both classes carry the same table and the same steps; the  *)
(* injector's also strips whitespace first)                                *)
(***************************************************************************)
\* the translit / translit_dict table: the replacement of one character
Translit(c) ==
    CASE c = 1072 -> <<97>>   [] c = 1073 -> <<98>>   [] c = 1074 -> <<118>>
      [] c = 1075 -> <<103>>   [] c = 1169 -> <<103>>   [] c = 1076 -> <<100>>
      [] c = 1077 -> <<101>>   [] c = 1108 -> <<121, 101>>  [] c = 1078 -> <<122, 104>>
      [] c = 1079 -> <<122>>   [] c = 1080 -> <<121>>   [] c = 1110 -> <<105>>
      [] c = 1111 -> <<121, 105>>  [] c = 1081 -> <<121>>   [] c = 1082 -> <<107>>
      [] c = 1083 -> <<108>>   [] c = 1084 -> <<109>>   [] c = 1085 -> <<110>>
      [] c = 1086 -> <<111>>   [] c = 1087 -> <<112>>   [] c = 1088 -> <<114>>
      [] c = 1089 -> <<115>>   [] c = 1090 -> <<116>>   [] c = 1091 -> <<117>>
      [] c = 1092 -> <<102>>   [] c = 1093 -> <<104>>   [] c = 1094 -> <<99>>
      [] c = 1095 -> <<99, 104>>  [] c = 1096 -> <<115, 104>>  [] c = 1097 -> <<115, 99, 104>>
      [] c = 1100 -> <<>>    [] c = 1102 -> <<121, 117>>  [] c = 1103 -> <<121, 97>>
      [] OTHER -> <<c>>

\* for ua, en in translit.items(): slug = slug.replace(ua, en)
\* (every key is one Cyrillic letter and every replacement is Latin, so the
\* successive replacements never feed one another)
RECURSIVE TranslitRange(_, _, _)
TranslitRange(s, a, b) ==
    IF a > b THEN <<>>
    ELSE IF a = b THEN Translit(s[a])
    ELSE LET m == (a + b) \div 2
         IN  TranslitRange(s, a, m) \o TranslitRange(s, m + 1, b)

transliterate(s, i) == TranslitRange(s, i, Len(s))

\* [^a-z0-9\s-] is removed: what is kept
SlugKept(c) == c \in 97..122 \/ c \in 48..57 \/ IsSpace(c) \/ c = 45

\* slug[:50]
SLUG_MAX == 50

\* the steps after lower() (and strip()) that both versions share
SlugTail(lowered) ==
    LET t == transliterate(lowered, 1)
        kept == SelectSeq(t, SlugKept)
        dashed == sub_hyphens(sub_spaces(kept, 45))
        trimmed == strip_hyphens(dashed)
    IN  Slice(trimmed, 1, SLUG_MAX)

\* CriminalCodeParser.create_slug
Parser_create_slug(t) == SlugTail(lower(t))

\* TelegramInjector.create_slug
Injector_create_slug(t) == SlugTail(strip(lower(t)))

create_slug(which, t) ==
    IF which = "parser" THEN Parser_create_slug(t) ELSE Injector_create_slug(t)

(***************************************************************************)
(* Slug derivation as a state machine: a title is assembled run by run,    *)
(* slugged, and the slug is slugged again.                                 *)
(***************************************************************************)
\* К щ ь a - space . 7
SlugAlphabet == {1050, 1097, 1100, 97, 45, 32, 46, 55}

Run(c, n) == [i \in 1..n |-> c]


\* no title assembled yet
SlugStart ==
    /\ impl \in {"parser", "injector"}
    /\ title = <<>>
    /\ titleRuns = 0
    /\ slug = <<>>
    /\ reslug = <<>>
    /\ slugPc = "input"

\* the slug pipeline at rest while another pipeline is observed
SlugIdle ==
    /\ impl = "parser"
    /\ title = <<>>
    /\ titleRuns = 0
    /\ slug = <<>>
    /\ reslug = <<>>
    /\ slugPc = "input"

\* the caller assembles the next run of the title
AppendRun ==
    /\ slugPc = "input"
    /\ titleRuns < MaxRuns
    /\ \E c \in SlugAlphabet, n \in {1, LongRun} :
           title' = title \o Run(c, n)
    /\ titleRuns' = titleRuns + 1
    /\ UNCHANGED <<impl, slug, reslug, slugPc, notSlug>>

\* slug = create_slug(title)
CreateSlug ==
    /\ slugPc = "input"
    /\ slug' = create_slug(impl, title)
    /\ slugPc' = "slugged"
    /\ UNCHANGED <<impl, title, titleRuns, reslug, notSlug>>

\* create_slug applied to its own output
ReSlug ==
    /\ slugPc = "slugged"
    /\ reslug' = create_slug(impl, slug)
    /\ slugPc' = "reslugged"
    /\ UNCHANGED <<impl, title, titleRuns, slug, notSlug>>

SlugNext == AppendRun \/ CreateSlug \/ ReSlug

(***************************************************************************)
(* Citation classifier: TelegramInjector.detect_articles                   *)
(***************************************************************************)
\* the literal lit stands at position p of s; the patterns are compiled with
\* re.IGNORECASE, so letters are compared by their lower-case forms
LitAt(s, p, lit) ==
    /\ p >= 1
    /\ p + Len(lit) - 1 <= Len(s)
    /\ \A i \in 1..Len(lit) : Lower(s[p + i - 1]) = Lower(lit[i])

\* (mutation of Contains: the operands of "in" are swapped)
Contains_Swapped(s, k) ==
    \E p \in 1..(Len(k) - Len(s) + 1) :
        \A i \in 1..Len(s) : k[p + i - 1] = s[i]
\* keyword in text: a literal (case-sensitive) substring test
Contains(s, k) ==
    \E p \in 1..(Len(s) - Len(k) + 1) :
        \A i \in 1..Len(k) : s[p + i - 1] = k[i]

\* \d+ or \d* matched greedily from p: the position after the run
SkipDigits(s, p) == p + RunLength(s, p, Len(s), "digit")

\* \.? matched greedily from p
SkipDot(s, p) == IF p <= Len(s) /\ s[p] = 46 THEN p + 1 ELSE p

\* \s*\.?\s* from p
SkipSpDotSp(s, p) == SkipSpaces(s, SkipDot(s, SkipSpaces(s, p)))

\* Python's int is unbounded; the value of a digit string is kept exact below
\* IntCap and is IntCap from there on
IntCap == 1000000

\* int(s[a..b]) for a string of ASCII digits
RECURSIVE IntOf(_, _, _)
IntOf(s, a, b) ==
    IF b < a THEN 0
    ELSE LET hi == IntOf(s, a, b - 1)
             v == hi * 10 + (s[b] - 48)
         IN  IF hi >= IntCap \/ v >= IntCap THEN IntCap ELSE v

\* a match object: the position after the match (0: no match) and the span
\* of group 1
NoMatch == [end |-> 0, g1 |-> <<0, 0>>]

\* \s*(?:частина|ч)\s*\.?\s*(\d+) from p with the alternative word: the
\* position after it, 0 if it does not match
PartWith(s, p, word) ==
    LET q1 == SkipSpaces(s, p)
        q3 == SkipSpDotSp(s, q1 + Len(word))
        q4 == SkipDigits(s, q3)
    IN  IF LitAt(s, q1, word) /\ q4 > q3 THEN q4 ELSE 0

\* (?:\s*(?:частина|ч)\s*\.?\s*(\d+))? from p: the alternatives in order,
\* else the empty match
OptPart(s, p) ==
    LET a == PartWith(s, p, <<1095, 1072, 1089, 1090, 1080, 1085, 1072>>)
        b == PartWith(s, p, <<1095>>)
    IN  IF a > 0 THEN a ELSE IF b > 0 THEN b ELSE p

\* \s*\.?\s*(\d+)(?:...)? from p
CitationTail(s, p) ==
    LET d1 == SkipSpDotSp(s, p)
        d2 == SkipDigits(s, d1)
    IN  IF d2 > d1 THEN [end |-> OptPart(s, d2), g1 |-> <<d1, d2 - 1>>]
        ELSE NoMatch

\* article_patterns[0] at p:
\*   ст(?:аття)?\s*\.?\s*(\d+)(?:\s*(?:частина|ч)\s*\.?\s*(\d+))?
Pattern1At(s, p) ==
    IF ~LitAt(s, p, <<1089, 1090>>) THEN NoMatch
    ELSE LET long == IF LitAt(s, p + 2, <<1072, 1090, 1090, 1103>>)
                     THEN CitationTail(s, p + 6) ELSE NoMatch
         IN  IF long.end > 0 THEN long ELSE CitationTail(s, p + 2)

\* article_patterns[1] at p with one alternative word:
\*   (\d+)\s*(?:частина|ч)\s*\.?\s*(\d+)\s*КК
Pattern2With(s, p, word) ==
    LET d2 == SkipDigits(s, p)
        q == PartWith(s, d2, word)
        e == SkipSpaces(s, q)
    IN  IF d2 > p /\ q > 0 /\ LitAt(s, e, <<1050, 1050>>)
        THEN [end |-> e + 2, g1 |-> <<p, d2 - 1>>] ELSE NoMatch

Pattern2At(s, p) ==
    LET a == Pattern2With(s, p, <<1095, 1072, 1089, 1090, 1080, 1085, 1072>>)
    IN  IF a.end > 0 THEN a ELSE Pattern2With(s, p, <<1095>>)

\* (\d+) from p, as a match ending after the digits
DigitsAt(s, p) ==
    LET d2 == SkipDigits(s, p)
    IN  IF d2 > p THEN [end |-> d2, g1 |-> <<p, d2 - 1>>] ELSE NoMatch

\* article_patterns[2] at p:  КК\s*(?:України)?\s*(\d+)
Pattern3At(s, p) ==
    IF ~LitAt(s, p, <<1050, 1050>>) THEN NoMatch
    ELSE LET a == SkipSpaces(s, p + 2)
             with == IF LitAt(s, a, <<1059, 1082, 1088, 1072, 1111, 1085, 1080>>)
                     THEN DigitsAt(s, SkipSpaces(s, a + 7)) ELSE NoMatch
         IN  IF with.end > 0 THEN with ELSE DigitsAt(s, a)

\* .*? before (\d+): the first digit at or after p with no line feed before
\* it ('.' matches anything but '\n'); 0 if there is none
FirstDigitOnLine(s, p) ==
    LET d == p + RunLength(s, p, Len(s), "line")
    IN  IF d <= Len(s) /\ IsDigit(s[d]) THEN d ELSE 0

\* article_patterns[3] at p:  Кримінальний\s*кодекс.*?(\d+)
Pattern4At(s, p) ==
    IF ~LitAt(s, p, <<1050, 1088, 1080, 1084, 1110, 1085, 1072, 1083, 1100, 1085, 1080, 1081>>) THEN NoMatch
    ELSE LET a == SkipSpaces(s, p + 12)
             d == FirstDigitOnLine(s, a + 6)
         IN  IF LitAt(s, a, <<1082, 1086, 1076, 1077, 1082, 1089>>) /\ d > 0 THEN DigitsAt(s, d)
             ELSE NoMatch

PatternAt(k, s, p) ==
    CASE k = 1 -> Pattern1At(s, p)
      [] k = 2 -> Pattern2At(s, p)
      [] k = 3 -> Pattern3At(s, p)
      [] k = 4 -> Pattern4At(s, p)

\* re.finditer(pattern, text_lower, re.IGNORECASE) from position p on: the
\* leftmost match, then the search goes on after it
\* the matches that start at one of the positions starts, from p on: the
\* leftmost, then those after its end
RECURSIVE finditer_from(_, _, _, _)
finditer_from(k, s, starts, p) ==
    LET S == {q \in starts : q >= p}
    IN  IF S = {} THEN <<>>
        ELSE LET m == PatternAt(k, s, CHOOSE q \in S : \A r \in S : q <= r)
             IN  <<m>> \o finditer_from(k, s, starts, m.end)

finditer(k, s, p) ==
    finditer_from(k, s, {q \in p..Len(s) : PatternAt(k, s, q).end > 0}, p)

\* the valid article numbers of the Code
MAX_ARTICLE == 447
\* (mutation of InRange: the upper limit of the range check is missing)
InRange_NoUpperLimit(n) == 1 <= n
InRange(n) == 1 <= n /\ n <= MAX_ARTICLE

\* the numbers int(match.group(1)) of all matches of all patterns
PatternNumbers(s) ==
    UNION {{IntOf(s, m[i].g1[1], m[i].g1[2]) : i \in 1..Len(m)} :
           m \in {finditer(k, s, 1) : k \in 1..4}}

\* pass 1: the captured numbers that pass the range check
PatternPass(s) == {n \in PatternNumbers(s) : InRange(n)}

\* self.article_keywords, in the order of the dict
ARTICLE_KEYWORDS == <<
    \* 185: ['крадіжка', 'таємно', 'чужого майна', 'привласнення']
    [number |-> 185, keywords |-> <<<<1082, 1088, 1072, 1076, 1110, 1078, 1082, 1072>>, <<1090, 1072, 1108, 1084, 1085, 1086>>, <<1095, 1091, 1078, 1086, 1075, 1086, 32, 1084, 1072, 1081, 1085, 1072>>, <<1087, 1088, 1080, 1074, 1083, 1072, 1089, 1085, 1077, 1085, 1085, 1103>>>>],
    \* 186: ['грабіж', 'відкрито', 'заволодіння']
    [number |-> 186, keywords |-> <<<<1075, 1088, 1072, 1073, 1110, 1078>>, <<1074, 1110, 1076, 1082, 1088, 1080, 1090, 1086>>, <<1079, 1072, 1074, 1086, 1083, 1086, 1076, 1110, 1085, 1085, 1103>>>>],
    \* 187: ['розбій', 'напад', 'озброєний', 'погроза застосування']
    [number |-> 187, keywords |-> <<<<1088, 1086, 1079, 1073, 1110, 1081>>, <<1085, 1072, 1087, 1072, 1076>>, <<1086, 1079, 1073, 1088, 1086, 1108, 1085, 1080, 1081>>, <<1087, 1086, 1075, 1088, 1086, 1079, 1072, 32, 1079, 1072, 1089, 1090, 1086, 1089, 1091, 1074, 1072, 1085, 1085, 1103>>>>],
    \* 189: ['вимагання', 'погроза розголошення', 'шантаж']
    [number |-> 189, keywords |-> <<<<1074, 1080, 1084, 1072, 1075, 1072, 1085, 1085, 1103>>, <<1087, 1086, 1075, 1088, 1086, 1079, 1072, 32, 1088, 1086, 1079, 1075, 1086, 1083, 1086, 1096, 1077, 1085, 1085, 1103>>, <<1096, 1072, 1085, 1090, 1072, 1078>>>>],
    \* 190: ['шахрайство', 'обман', 'зловживання довірою']
    [number |-> 190, keywords |-> <<<<1096, 1072, 1093, 1088, 1072, 1081, 1089, 1090, 1074, 1086>>, <<1086, 1073, 1084, 1072, 1085>>, <<1079, 1083, 1086, 1074, 1078, 1080, 1074, 1072, 1085, 1085, 1103, 32, 1076, 1086, 1074, 1110, 1088, 1086, 1102>>>>],
    \* 115: ['вбивство', 'умисне позбавлення життя', 'позбавлення життя']
    [number |-> 115, keywords |-> <<<<1074, 1073, 1080, 1074, 1089, 1090, 1074, 1086>>, <<1091, 1084, 1080, 1089, 1085, 1077, 32, 1087, 1086, 1079, 1073, 1072, 1074, 1083, 1077, 1085, 1085, 1103, 32, 1078, 1080, 1090, 1090, 1103>>, <<1087, 1086, 1079, 1073, 1072, 1074, 1083, 1077, 1085, 1085, 1103, 32, 1078, 1080, 1090, 1090, 1103>>>>],
    \* 116: ['перевищення меж необхідної оборони', 'необхідна оборона']
    [number |-> 116, keywords |-> <<<<1087, 1077, 1088, 1077, 1074, 1080, 1097, 1077, 1085, 1085, 1103, 32, 1084, 1077, 1078, 32, 1085, 1077, 1086, 1073, 1093, 1110, 1076, 1085, 1086, 1111, 32, 1086, 1073, 1086, 1088, 1086, 1085, 1080>>, <<1085, 1077, 1086, 1073, 1093, 1110, 1076, 1085, 1072, 32, 1086, 1073, 1086, 1088, 1086, 1085, 1072>>>>],
    \* 118: ['вбивство у стані сильного душевного хвилювання']
    [number |-> 118, keywords |-> <<<<1074, 1073, 1080, 1074, 1089, 1090, 1074, 1086, 32, 1091, 32, 1089, 1090, 1072, 1085, 1110, 32, 1089, 1080, 1083, 1100, 1085, 1086, 1075, 1086, 32, 1076, 1091, 1096, 1077, 1074, 1085, 1086, 1075, 1086, 32, 1093, 1074, 1080, 1083, 1102, 1074, 1072, 1085, 1085, 1103>>>>],
    \* 119: ['вбивство через необережність', 'необережність']
    [number |-> 119, keywords |-> <<<<1074, 1073, 1080, 1074, 1089, 1090, 1074, 1086, 32, 1095, 1077, 1088, 1077, 1079, 32, 1085, 1077, 1086, 1073, 1077, 1088, 1077, 1078, 1085, 1110, 1089, 1090, 1100>>, <<1085, 1077, 1086, 1073, 1077, 1088, 1077, 1078, 1085, 1110, 1089, 1090, 1100>>>>],
    \* 120: ['доведення до самогубства']
    [number |-> 120, keywords |-> <<<<1076, 1086, 1074, 1077, 1076, 1077, 1085, 1085, 1103, 32, 1076, 1086, 32, 1089, 1072, 1084, 1086, 1075, 1091, 1073, 1089, 1090, 1074, 1072>>>>],
    \* 121: ['умисне тяжке тілесне ушкодження', 'тяжке тілесне']
    [number |-> 121, keywords |-> <<<<1091, 1084, 1080, 1089, 1085, 1077, 32, 1090, 1103, 1078, 1082, 1077, 32, 1090, 1110, 1083, 1077, 1089, 1085, 1077, 32, 1091, 1096, 1082, 1086, 1076, 1078, 1077, 1085, 1085, 1103>>, <<1090, 1103, 1078, 1082, 1077, 32, 1090, 1110, 1083, 1077, 1089, 1085, 1077>>>>],
    \* 122: ['умисне середньої тяжкості тілесне ушкодження']
    [number |-> 122, keywords |-> <<<<1091, 1084, 1080, 1089, 1085, 1077, 32, 1089, 1077, 1088, 1077, 1076, 1085, 1100, 1086, 1111, 32, 1090, 1103, 1078, 1082, 1086, 1089, 1090, 1110, 32, 1090, 1110, 1083, 1077, 1089, 1085, 1077, 32, 1091, 1096, 1082, 1086, 1076, 1078, 1077, 1085, 1085, 1103>>>>],
    \* 125: ['умисне легке тілесне ушкодження']
    [number |-> 125, keywords |-> <<<<1091, 1084, 1080, 1089, 1085, 1077, 32, 1083, 1077, 1075, 1082, 1077, 32, 1090, 1110, 1083, 1077, 1089, 1085, 1077, 32, 1091, 1096, 1082, 1086, 1076, 1078, 1077, 1085, 1085, 1103>>>>],
    \* 126: ['побої і мордування']
    [number |-> 126, keywords |-> <<<<1087, 1086, 1073, 1086, 1111, 32, 1110, 32, 1084, 1086, 1088, 1076, 1091, 1074, 1072, 1085, 1085, 1103>>>>],
    \* 127: ['катування']
    [number |-> 127, keywords |-> <<<<1082, 1072, 1090, 1091, 1074, 1072, 1085, 1085, 1103>>>>],
    \* 307: ['наркотичні засоби', 'психотропні речовини', 'наркотики']
    [number |-> 307, keywords |-> <<<<1085, 1072, 1088, 1082, 1086, 1090, 1080, 1095, 1085, 1110, 32, 1079, 1072, 1089, 1086, 1073, 1080>>, <<1087, 1089, 1080, 1093, 1086, 1090, 1088, 1086, 1087, 1085, 1110, 32, 1088, 1077, 1095, 1086, 1074, 1080, 1085, 1080>>, <<1085, 1072, 1088, 1082, 1086, 1090, 1080, 1082, 1080>>>>],
    \* 309: ['незаконне виробництво наркотичних засобів']
    [number |-> 309, keywords |-> <<<<1085, 1077, 1079, 1072, 1082, 1086, 1085, 1085, 1077, 32, 1074, 1080, 1088, 1086, 1073, 1085, 1080, 1094, 1090, 1074, 1086, 32, 1085, 1072, 1088, 1082, 1086, 1090, 1080, 1095, 1085, 1080, 1093, 32, 1079, 1072, 1089, 1086, 1073, 1110, 1074>>>>],
    \* 286: ['порушення правил безпеки дорожнього руху', 'ДТП']
    [number |-> 286, keywords |-> <<<<1087, 1086, 1088, 1091, 1096, 1077, 1085, 1085, 1103, 32, 1087, 1088, 1072, 1074, 1080, 1083, 32, 1073, 1077, 1079, 1087, 1077, 1082, 1080, 32, 1076, 1086, 1088, 1086, 1078, 1085, 1100, 1086, 1075, 1086, 32, 1088, 1091, 1093, 1091>>, <<1044, 1058, 1055>>>>],
    \* 152: ['згвалтування']
    [number |-> 152, keywords |-> <<<<1079, 1075, 1074, 1072, 1083, 1090, 1091, 1074, 1072, 1085, 1085, 1103>>>>],
    \* 153: ["примушування до вступу в статевий зв'язок"]
    [number |-> 153, keywords |-> <<<<1087, 1088, 1080, 1084, 1091, 1096, 1091, 1074, 1072, 1085, 1085, 1103, 32, 1076, 1086, 32, 1074, 1089, 1090, 1091, 1087, 1091, 32, 1074, 32, 1089, 1090, 1072, 1090, 1077, 1074, 1080, 1081, 32, 1079, 1074, 39, 1103, 1079, 1086, 1082>>>>],
    \* 364: ['зловживання владою або службовим становищем']
    [number |-> 364, keywords |-> <<<<1079, 1083, 1086, 1074, 1078, 1080, 1074, 1072, 1085, 1085, 1103, 32, 1074, 1083, 1072, 1076, 1086, 1102, 32, 1072, 1073, 1086, 32, 1089, 1083, 1091, 1078, 1073, 1086, 1074, 1080, 1084, 32, 1089, 1090, 1072, 1085, 1086, 1074, 1080, 1097, 1077, 1084>>>>],
    \* 365: ['перевищення влади або службових повноважень']
    [number |-> 365, keywords |-> <<<<1087, 1077, 1088, 1077, 1074, 1080, 1097, 1077, 1085, 1085, 1103, 32, 1074, 1083, 1072, 1076, 1080, 32, 1072, 1073, 1086, 32, 1089, 1083, 1091, 1078, 1073, 1086, 1074, 1080, 1093, 32, 1087, 1086, 1074, 1085, 1086, 1074, 1072, 1078, 1077, 1085, 1100>>>>],
    \* 366: ['службове підроблення']
    [number |-> 366, keywords |-> <<<<1089, 1083, 1091, 1078, 1073, 1086, 1074, 1077, 32, 1087, 1110, 1076, 1088, 1086, 1073, 1083, 1077, 1085, 1085, 1103>>>>],
    \* 368: ['прийняття пропозиції, обіцянки або одержання неправомірної вигоди службовою особою']
    [number |-> 368, keywords |-> <<<<1087, 1088, 1080, 1081, 1085, 1103, 1090, 1090, 1103, 32, 1087, 1088, 1086, 1087, 1086, 1079, 1080, 1094, 1110, 1111, 44, 32, 1086, 1073, 1110, 1094, 1103, 1085, 1082, 1080, 32, 1072, 1073, 1086, 32, 1086, 1076, 1077, 1088, 1078, 1072, 1085, 1085, 1103, 32, 1085, 1077, 1087, 1088, 1072, 1074, 1086, 1084, 1110, 1088, 1085, 1086, 1111, 32, 1074, 1080, 1075, 1086, 1076, 1080, 32, 1089, 1083, 1091, 1078, 1073, 1086, 1074, 1086, 1102, 32, 1086, 1089, 1086, 1073, 1086, 1102>>>>],
    \* 369: ['незаконне збагачення']
    [number |-> 369, keywords |-> <<<<1085, 1077, 1079, 1072, 1082, 1086, 1085, 1085, 1077, 32, 1079, 1073, 1072, 1075, 1072, 1095, 1077, 1085, 1085, 1103>>>>],
    \* 382: ['невиконання судового рішення']
    [number |-> 382, keywords |-> <<<<1085, 1077, 1074, 1080, 1082, 1086, 1085, 1072, 1085, 1085, 1103, 32, 1089, 1091, 1076, 1086, 1074, 1086, 1075, 1086, 32, 1088, 1110, 1096, 1077, 1085, 1085, 1103>>>>],
    \* 384: ['примушування давати показання']
    [number |-> 384, keywords |-> <<<<1087, 1088, 1080, 1084, 1091, 1096, 1091, 1074, 1072, 1085, 1085, 1103, 32, 1076, 1072, 1074, 1072, 1090, 1080, 32, 1087, 1086, 1082, 1072, 1079, 1072, 1085, 1085, 1103>>>>],
    \* 387: ['розголошення даних оперативно-розшукової діяльності']
    [number |-> 387, keywords |-> <<<<1088, 1086, 1079, 1075, 1086, 1083, 1086, 1096, 1077, 1085, 1085, 1103, 32, 1076, 1072, 1085, 1080, 1093, 32, 1086, 1087, 1077, 1088, 1072, 1090, 1080, 1074, 1085, 1086, 45, 1088, 1086, 1079, 1096, 1091, 1082, 1086, 1074, 1086, 1111, 32, 1076, 1110, 1103, 1083, 1100, 1085, 1086, 1089, 1090, 1110>>>>],
    \* 408: ['самовільне залишення військової частини або місця служби']
    [number |-> 408, keywords |-> <<<<1089, 1072, 1084, 1086, 1074, 1110, 1083, 1100, 1085, 1077, 32, 1079, 1072, 1083, 1080, 1096, 1077, 1085, 1085, 1103, 32, 1074, 1110, 1081, 1089, 1100, 1082, 1086, 1074, 1086, 1111, 32, 1095, 1072, 1089, 1090, 1080, 1085, 1080, 32, 1072, 1073, 1086, 32, 1084, 1110, 1089, 1094, 1103, 32, 1089, 1083, 1091, 1078, 1073, 1080>>>>],
    \* 409: ['дезертирство']
    [number |-> 409, keywords |-> <<<<1076, 1077, 1079, 1077, 1088, 1090, 1080, 1088, 1089, 1090, 1074, 1086>>>>],
    \* 425: ['непокора']
    [number |-> 425, keywords |-> <<<<1085, 1077, 1087, 1086, 1082, 1086, 1088, 1072>>>>]
>>

\* keyword.lower() for every keyword of the table
KEYWORDS_LOWER ==
    [a \in 1..Len(ARTICLE_KEYWORDS) |->
        [j \in 1..Len(ARTICLE_KEYWORDS[a].keywords) |->
            lower(ARTICLE_KEYWORDS[a].keywords[j])]]

\* pass 2: the articles one of whose keywords (lower-cased) is in the text
KeywordPass(s) ==
    {ARTICLE_KEYWORDS[a].number :
        a \in {b \in 1..Len(ARTICLE_KEYWORDS) :
                \E j \in 1..Len(KEYWORDS_LOWER[b]) :
                    Contains(s, KEYWORDS_LOWER[b][j])}}

\* the contexts dict of _contextual_analysis, in the order of the dict
CONTEXTS == <<
    \* 'власність'
    [key |-> <<1074, 1083, 1072, 1089, 1085, 1110, 1089, 1090, 1100>>, articles |-> <<185, 186, 187, 189, 190>>],
    \* 'життя'
    [key |-> <<1078, 1080, 1090, 1090, 1103>>, articles |-> <<115, 116, 118, 119>>],
    \* 'здоров\'я'
    [key |-> <<1079, 1076, 1086, 1088, 1086, 1074, 39, 1103>>, articles |-> <<121, 122, 125, 126, 127>>],
    \* 'наркотики'
    [key |-> <<1085, 1072, 1088, 1082, 1086, 1090, 1080, 1082, 1080>>, articles |-> <<307, 309>>],
    \* 'дорожній рух'
    [key |-> <<1076, 1086, 1088, 1086, 1078, 1085, 1110, 1081, 32, 1088, 1091, 1093>>, articles |-> <<286>>],
    \* 'службов'
    [key |-> <<1089, 1083, 1091, 1078, 1073, 1086, 1074>>, articles |-> <<364, 365, 366, 368, 369>>],
    \* 'хабар'
    [key |-> <<1093, 1072, 1073, 1072, 1088>>, articles |-> <<368, 369>>]
>>

\* context_articles[:2]
CONTEXT_TAKE == 2
\* articles[:5]
CONTEXT_LIMIT == 5

\* what one topic adds: articles.extend(context_articles[:2]) if its key is
\* in the text
ContextAdds(s, c) ==
    IF Contains(s, c.key) THEN Slice(c.articles, 1, CONTEXT_TAKE) ELSE <<>>

\* the loop over contexts.items() from the i-th topic on
RECURSIVE ContextLoop(_, _)
ContextLoop(s, i) ==
    IF i > Len(CONTEXTS) THEN <<>>
    ELSE ContextAdds(s, CONTEXTS[i]) \o ContextLoop(s, i + 1)

\* (mutation of _contextual_analysis: the final articles[:5] is missing)
contextual_analysis_NoLimit(s) == ContextLoop(s, 1)
\* TelegramInjector._contextual_analysis
contextual_analysis(s) == Slice(ContextLoop(s, 1), 1, CONTEXT_LIMIT)

SeqElems(q) == {q[i] : i \in 1..Len(q)}

\* sorted(list(S)) for a set of integers
RECURSIVE sorted(_)
sorted(S) ==
    IF S = {} THEN <<>>
    ELSE LET m == CHOOSE x \in S : \A y \in S : x <= y
         IN  <<m>> \o sorted(S \ {m})

\* TelegramInjector.detect_articles
detect_articles(t) ==
    LET text_lower == lower(t)
        detected_articles ==
            PatternPass(text_lower) \cup KeywordPass(text_lower)
                \cup SeqElems(contextual_analysis(text_lower))
    IN  sorted(detected_articles)

(***************************************************************************)
(* Classification as a state machine: a post text is assembled fragment by *)
(* fragment and classified.                                                *)
(***************************************************************************)
Fragments == {
    <<1089, 1090, 46, 32>>, <<48>>, <<52, 52>>, <<55>>, <<56>>,
    <<32, 1095, 46, 32, 50, 32, 1050, 1050, 32>>, <<1050, 1050, 32, 1059, 1082, 1088, 1072, 1111, 1085, 1080, 32>>, <<1050, 1088, 1080, 1084, 1110, 1085, 1072, 1083, 1100, 1085, 1080, 1081, 32, 1082, 1086, 1076, 1077, 1082, 1089, 44, 32>>,
    <<1044, 1058, 1055, 32>>, <<1085, 1072, 1088, 1082, 1086, 1090, 1080, 1082, 1080, 32>>, <<1078, 1080, 1090, 1090, 1103, 32>>, <<1076, 1086, 1088, 1086, 1078, 1085, 1110, 1081, 32, 1088, 1091, 1093, 32>>, <<1093, 1072, 1073, 1072, 1088, 10>>
}

ClassStart ==
    /\ text = <<>>
    /\ textFrags = 0
    /\ context = <<>>
    /\ detected = <<>>
    /\ classPc = "input"

ClassIdle == ClassStart

\* the caller assembles the next fragment of the post text
AppendFragment ==
    /\ classPc = "input"
    /\ textFrags < MaxFrags
    /\ \E f \in Fragments : text' = text \o f
    /\ textFrags' = textFrags + 1
    /\ UNCHANGED <<context, detected, classPc, notClass>>

\* result = detect_articles(text), which calls _contextual_analysis
DetectArticles ==
    /\ classPc = "input"
    /\ context' = contextual_analysis(lower(text))
    /\ detected' = detect_articles(text)
    /\ classPc' = "done"
    /\ UNCHANGED <<text, textFrags, notClass>>

ClassNext == AppendFragment \/ DetectArticles

(***************************************************************************)
(* Document segmenter: CriminalCodeParser.parse_structure                  *)
(* (the section search of lines 45-51 only prints and fills the second     *)
(* element of the returned pair; the article list does not depend on it)   *)
(***************************************************************************)
\* the class [\u00A0\u2000-\u200B\u2028\u2029]
IsInvisible(c) == c = 160 \/ c \in 8192..8203 \/ c = 8232 \/ c = 8233

\* the two re.sub calls that open parse_structure
normalize(t) ==
    LET collapsed == sub_spaces(t, 32)
    IN  [i \in 1..Len(collapsed) |->
            IF IsInvisible(collapsed[i]) THEN 32 ELSE collapsed[i]]

\* [А-ЯІЇЄҐ] under re.IGNORECASE
IsTitleStart(c) ==
    \/ c \in 1040..1103
    \/ c \in {1028, 1030, 1031, 1108, 1110, 1111, 1168, 1169}
    \/ c \in 7296..7302

\* re's \w on the ASCII and Cyrillic blocks
IsWord(c) ==
    \/ c \in 48..57 \/ c \in 65..90 \/ c = 95 \/ c \in 97..122
    \/ c \in 1024..1153 \/ c \in 1162..1327 \/ c \in 7296..7304

\* the least element of a non-empty set of positions
MinOf(S) == CHOOSE x \in S : \A y \in S : x <= y

\* the number that opens a match of article pattern k at p: the span of its
\* digits (from = 0 if it does not match)
\*   pattern 1:  Стаття\s+(\d+)        pattern 2:  (\d+)
NumberAt(k, s, p) ==
    IF k = 1
    THEN LET a == SkipSpaces(s, p + 6)
             d == SkipDigits(s, a)
         IN  IF LitAt(s, p, <<1057, 1090, 1072, 1090, 1090, 1103>>) /\ a > p + 6 /\ d > a
             THEN [from |-> a, to |-> d - 1] ELSE [from |-> 0, to |-> 0]
    ELSE LET d == SkipDigits(s, p)
         IN  IF p <= Len(s) /\ d > p
             THEN [from |-> p, to |-> d - 1] ELSE [from |-> 0, to |-> 0]

\* the lookahead that ends the body of pattern k, tried at q
\*   pattern 1:  (?=Стаття\s+\d+|$)    pattern 2:  (?=\d+\.\s*[А-ЯІЇЄҐ]|$)
\* (the $ alternative is the end of the text, see ContentEnd)
LookAt(k, s, q) ==
    IF k = 1 THEN NumberAt(1, s, q).from > 0
    ELSE LET d == SkipDigits(s, q)
             b == SkipSpaces(s, d + 1)
         IN  /\ d > q
             /\ d <= Len(s) /\ s[d] = 46
             /\ b <= Len(s) /\ IsTitleStart(s[b])

\* article pattern k tried at p:
\*   1: Стаття\s+(\d+)\.?\s*([А-ЯІЇЄҐ][^\.]*?)\.?\s*(.*?)(?=Стаття\s+\d+|$)
\*   2: (\d+)\.?\s*([А-ЯІЇЄҐ][^\.]*?)\.?\s*(.*?)(?=\d+\.\s*[А-ЯІЇЄҐ]|$)
\* After the number come \.?\s* and the first letter of the title at b. The
\* title's [^\.]*? is lazy and what follows it can match from any position
\* (\.? and \s* may be empty, .*? may run to the end of the text, where $
\* holds), so the lazy repetition takes no character: group 2 is s[b..b].
\* Then \.?\s* are taken greedily and group 3 starts at c.
ArticleAt(k, s, p) ==
    LET n == NumberAt(k, s, p)
        b == SkipSpaces(s, SkipDot(s, n.to + 1))
    IN  IF n.from > 0 /\ b <= Len(s) /\ IsTitleStart(s[b])
        THEN [ok |-> TRUE, from |-> n.from, to |-> n.to, b |-> b,
              c |-> SkipSpaces(s, SkipDot(s, b + 1))]
        ELSE [ok |-> FALSE, from |-> 0, to |-> 0, b |-> 0, c |-> 0]

\* the positions where pattern k matches, and where its lookahead holds
Starts(k, s) == {p \in 1..Len(s) : ArticleAt(k, s, p).ok}
Looks(k, s) == {q \in 1..Len(s) : LookAt(k, s, q)}

\* (.*?) from c: the first position at or after c where the lookahead
\* holds, the end of the text if there is none
ContentEnd(s, looks, c) ==
    LET L == {q \in looks : q >= c}
    IN  IF L = {} THEN Len(s) + 1 ELSE MinOf(L)

\* re.findall(pattern, text, re.DOTALL | re.IGNORECASE) from position pos
\* on: the leftmost match, its three groups, then on from where it ended
RECURSIVE findall(_, _, _, _, _)
findall(k, s, starts, looks, pos) ==
    LET S == {p \in starts : p >= pos}
    IN  IF S = {} THEN <<>>
        ELSE LET m == ArticleAt(k, s, MinOf(S))
                 e == ContentEnd(s, looks, m.c)
             IN  <<[number |-> Slice(s, m.from, m.to),
                    title |-> Slice(s, m.b, m.b),
                    content |-> Slice(s, m.c, e - 1)]>>
                 \o findall(k, s, starts, looks, e)

\* the matches of article pattern k in the whole text
Matches(k, s) == findall(k, s, Starts(k, s), Looks(k, s), 1)

\* (mutation of the pattern loop: no break, the matches of the patterns are
\* combined)
FirstMatching_Combined(s) == Matches(1, s) \o Matches(2, s)
\* for pattern in article_patterns: the matches of the first pattern that
\* has any (then break)
FirstMatching(s) ==
    LET m1 == Matches(1, s)
    IN  IF m1 # <<>> THEN m1 ELSE Matches(2, s)

\* the first and the last position of s that hold a word character
RECURSIVE SkipNonWord(_, _)
SkipNonWord(s, p) ==
    IF p <= Len(s) /\ ~IsWord(s[p]) THEN SkipNonWord(s, p + 1) ELSE p
RECURSIVE SkipNonWordBack(_, _)
SkipNonWordBack(s, p) ==
    IF p >= 1 /\ ~IsWord(s[p]) THEN SkipNonWordBack(s, p - 1) ELSE p

\* re.sub(r'^\W+|\W+$', '', title)
strip_nonword(s) == Slice(s, SkipNonWord(s, 1), SkipNonWordBack(s, Len(s)))

\* content = re.sub(r'\s+', ' ', content).strip()
clean_content(c) == strip(sub_spaces(c, 32))

\* the preview length of a body
MAX_CONTENT == 2000

\* (mutation of the length test: >= in place of >)
truncate_FromLimit(c) ==
    IF Len(c) >= MAX_CONTENT THEN Slice(c, 1, MAX_CONTENT) \o <<46, 46, 46>> ELSE c
\* if len(content) > 2000: content = content[:2000] + "..."
truncate(c) ==
    IF Len(c) > MAX_CONTENT THEN Slice(c, 1, MAX_CONTENT) \o <<46, 46, 46>> ELSE c

\* the body of the loop over the matches: the record of one match
process(m) ==
    LET t == sub_spaces(strip_nonword(m.title), 32)
    IN  [number |-> IntOf(m.number, 1, Len(m.number)),
         title |-> t,
         content |-> truncate(clean_content(m.content)),
         slug |-> Parser_create_slug(t)]

\* (mutation of the sort: a record goes before the records of its number,
\* as in an unstable sort)
RECURSIVE insert_BeforeEqual(_, _)
insert_BeforeEqual(sortedList, r) ==
    IF sortedList = <<>> THEN <<r>>
    ELSE IF sortedList[Len(sortedList)].number < r.number
         THEN Append(sortedList, r)
         ELSE Append(insert_BeforeEqual(
                         SubSeq(sortedList, 1, Len(sortedList) - 1), r),
                     sortedList[Len(sortedList)])
\* r put into a list sorted by number, after the records that do not have a
\* greater number (list.sort is stable)
RECURSIVE insert(_, _)
insert(sortedList, r) ==
    IF sortedList = <<>> THEN <<r>>
    ELSE IF sortedList[Len(sortedList)].number <= r.number
         THEN Append(sortedList, r)
         ELSE Append(insert(SubSeq(sortedList, 1, Len(sortedList) - 1), r),
                     sortedList[Len(sortedList)])

\* processed_articles.sort(key=lambda x: x['number'])
RECURSIVE sort_by_number(_)
sort_by_number(rs) ==
    IF rs = <<>> THEN <<>>
    ELSE insert(sort_by_number(SubSeq(rs, 1, Len(rs) - 1)), rs[Len(rs)])

\* the loop over the matches (int() of a \d+ capture does not fail, so every
\* match gives a record)
process_all(ms) == [i \in 1..Len(ms) |-> process(ms[i])]

\* CriminalCodeParser.parse_structure: the article list it returns
parse_structure(t) ==
    sort_by_number(process_all(FirstMatching(normalize(t))))

(***************************************************************************)
(* Segmentation as a state machine: a document is assembled unit by unit   *)
(* ("Стаття <n>. <Title>. <Body>", or an item "<n>. <Title>. <Body>" of a  *)
(* numbered list) and parsed.                                              *)
(***************************************************************************)
\* a run of n letters а
Filler(n) == [i \in 1..n |-> 1072]

Unit(head, num, unitTitle, body) ==
    [head |-> head, num |-> num, title |-> unitTitle, body |-> body]

\* <head><num>. <Title>. <Body>
UnitText(u) == u.head \o u.num \o <<46, 32>> \o u.title \o <<46, 32>> \o u.body

Units ==
    \* the units of the spec's example document, under either number
    {Unit(<<1057, 1090, 1072, 1090, 1090, 1103, 32>>, n, <<1050, 1088, 1072, 1076, 1110, 1078, 1082, 1072>>,
          <<1058, 1072, 1108, 1084, 1085, 1077, 32, 1074, 1080, 1082, 1088, 1072, 1076, 1077, 1085, 1085, 1103, 32, 1095, 1091, 1078, 1086, 1075, 1086, 32, 1084, 1072, 1081, 1085, 1072, 46>>) : n \in {<<49, 56, 53>>, <<49, 56, 54>>}}
    \cup
    {Unit(<<1057, 1090, 1072, 1090, 1090, 1103, 32>>, n, <<1043, 1088, 1072, 1073, 1110, 1078>>,
          <<1042, 1110, 1076, 1082, 1088, 1080, 1090, 1077, 32, 1074, 1080, 1082, 1088, 1072, 1076, 1077, 1085, 1085, 1103, 46>>) : n \in {<<49, 56, 53>>, <<49, 56, 54>>}}
    \cup
    \* numbers 0 and 7 written with leading zeros
    {Unit(<<1057, 1090, 1072, 1090, 1090, 1103, 32>>, n, <<1056, 1086, 1079, 1073, 1110, 1081>>, <<1053, 1072, 1087, 1072, 1076, 46>>) : n \in {<<48>>, <<48, 48, 55>>}}
    \cup
    \* bodies whose cleaned content ("рабіж. " and the body) has 2000 and
    \* 2001 characters
    {Unit(<<1057, 1090, 1072, 1090, 1090, 1103, 32>>, <<49, 56, 54>>, <<1043, 1088, 1072, 1073, 1110, 1078>>, Filler(n)) :
        n \in {MAX_CONTENT - 7, MAX_CONTENT - 6}}
    \cup
    \* line breaks, a zero-width space next to a space, a no-break space
    {Unit(<<1057, 1090, 1072, 1090, 1090, 1103, 10>>, <<49, 56, 55>>, <<1056, 1086, 1079, 1073, 1110, 1081>>, <<1053, 1072, 1087, 1072, 1076, 32, 8203, 32, 1079, 160, 1084, 1077, 1090, 1086, 1102, 46, 10>>)}
    \cup
    \* items of a numbered list, without the word
    {Unit(<<>>, n, <<1064, 1072, 1093, 1088, 1072, 1081, 1089, 1090, 1074, 1086>>, <<1054, 1073, 1084, 1072, 1085, 46>>) : n \in {<<49, 57, 48>>, <<50>>}}

SegStart ==
    /\ doc = <<>>
    /\ units = <<>>
    /\ found = <<>>
    /\ processed = <<>>
    /\ articles = <<>>
    /\ segPc = "input"

SegIdle == SegStart

\* the next unit of the document, separated by a space from the one before
AppendUnit ==
    /\ segPc = "input"
    /\ Len(units) < MaxUnits
    /\ \E u \in Units :
        /\ units' = Append(units, u)
        /\ doc' = IF doc = <<>> THEN UnitText(u)
                  ELSE doc \o <<32>> \o UnitText(u)
        /\ Len(doc') <= MaxDocLen
    /\ UNCHANGED <<found, processed, articles, segPc, notSeg>>

\* articles, sections = self.parse_structure(text)
ParseStructure ==
    /\ segPc = "input"
    /\ found' = FirstMatching(normalize(doc))
    /\ processed' = process_all(found')
    /\ articles' = sort_by_number(processed')
    /\ segPc' = "parsed"
    /\ UNCHANGED <<doc, units, notSeg>>

SegNext == AppendUnit \/ ParseStructure


(***************************************************************************)
(* TelegramInjector.run: the intake run over the processed-posts ledger    *)
(***************************************************************************)
\* load_processed_posts: the list in the file, [] when there is no file
load_processed_posts(file) ==
    IF file.exists THEN file.processed_posts ELSE <<>>

\* the texts of the posts of the channel (get_channel_posts keeps only posts
\* with a non-blank text)
PostTexts == {
    <<1057, 1091, 1076, 32, 1074, 1080, 1079, 1085, 1072, 1074, 32, 1086, 1089, 1086, 1073, 1091, 32, 1074, 1080, 1085, 1085, 1086, 1102, 32, 1091, 32, 1082, 1088, 1072, 1076, 1110, 1078, 1094, 1110, 32, 1095, 1091, 1078, 1086, 1075, 1086, 32, 1084, 1072, 1081, 1085, 1072, 44, 32, 1089, 1090, 46, 32, 49, 56, 53>>,
    <<1047, 1072, 1089, 1110, 1076, 1072, 1085, 1085, 1103, 32, 1087, 1077, 1088, 1077, 1085, 1077, 1089, 1077, 1085, 1086, 46>>
}

\* a post as get_channel_posts builds it ('date' and 'chat_id' take no part
\* in the loop of run)
Posts == [id : 1..MaxPostId, text : PostTexts]

\* the lists of posts get_channel_posts can return
Batches == UNION {[1..n -> Posts] : n \in 0..MaxBatch}

\* article_numbers = self.detect_articles(post['text']), for each post text
Classification == [t \in PostTexts |-> detect_articles(t)]

\* (mutation of the membership test: only the last id of the ledger counts)
IsProcessed_LastOnly(post_id, ledger) ==
    ledger # <<>> /\ ledger[Len(ledger)] = post_id
\* post_id in processed_posts
IsProcessed(post_id, ledger) ==
    \E i \in 1..Len(ledger) : ledger[i] = post_id

RunStart ==
    /\ bot_token \in BOOLEAN
    /\ processed_file = [exists |-> FALSE, processed_posts |-> <<>>]
    /\ posts = <<>>
    /\ processed_posts = <<>>
    /\ new_processed = <<>>
    /\ position = 1
    /\ classified = <<>>
    /\ decisions = <<>>
    /\ new_decisions = 0
    /\ runPc = "idle"
    /\ result = "none"

\* the run is over its posts and is about to save the ledger and return
AfterLoop == runPc = "loop" /\ position > Len(posts)

RunIdle == RunStart /\ bot_token = FALSE

\* run without TELEGRAM_BOT_TOKEN: return False before anything is loaded
RunNoToken ==
    /\ runPc = "idle"
    /\ ~bot_token
    /\ result' = "False"
    /\ UNCHANGED <<bot_token, processed_file, posts, processed_posts,
                   new_processed, position, classified, decisions,
                   new_decisions, runPc, notRun>>

\* run: the ledger is loaded, no post is fetched, return False
RunNoPosts ==
    /\ runPc = "idle"
    /\ bot_token
    /\ <<>> \in Batches
    /\ result' = "False"
    /\ UNCHANGED <<bot_token, processed_file, posts, processed_posts,
                   new_processed, position, classified, decisions,
                   new_decisions, runPc, notRun>>

\* run: the ledger is loaded, posts are fetched, the loop is entered
RunBegin ==
    /\ runPc = "idle"
    /\ bot_token
    /\ processed_posts' = load_processed_posts(processed_file)
    /\ \E batch \in Batches : batch # <<>> /\ posts' = batch
    /\ new_decisions' = 0
    /\ new_processed' = processed_posts'
    /\ position' = 1
    /\ classified' = <<>>
    /\ decisions' = <<>>
    /\ runPc' = "loop"
    /\ result' = "none"
    /\ UNCHANGED <<bot_token, processed_file, notRun>>

\* (mutation of the loop body: new_processed.append(post_id) is reached only
\* when the decision file was written)
ProcessNew_OnlyWritten ==
    /\ runPc = "loop"
    /\ position <= Len(posts)
    /\ ~IsProcessed(posts[position].id, processed_posts)
    /\ classified' = Append(classified, posts[position].id)
    /\ LET post == posts[position]
           article_numbers == Classification[post.text]
       IN  IF article_numbers # <<>>
           THEN \E written \in BOOLEAN :
                   /\ decisions' = Append(decisions,
                          [post_id |-> post.id,
                           article_numbers |-> article_numbers,
                           decision_file |-> written])
                   /\ new_decisions' = IF written THEN new_decisions + 1
                                                  ELSE new_decisions
                   /\ new_processed' = IF written
                                       THEN Append(new_processed, post.id)
                                       ELSE new_processed
           ELSE UNCHANGED <<decisions, new_decisions, new_processed>>
    /\ position' = position + 1
    /\ UNCHANGED <<bot_token, processed_file, posts, processed_posts, runPc,
                   result, notRun>>

\* one turn of the loop for a post whose id is not in processed_posts:
\* detect_articles, create_decision_file if it found articles (the file is
\* written or the call returns None), new_processed.append(post_id)
ProcessNew ==
    /\ runPc = "loop"
    /\ position <= Len(posts)
    /\ ~IsProcessed(posts[position].id, processed_posts)
    /\ classified' = Append(classified, posts[position].id)
    /\ LET post == posts[position]
           article_numbers == Classification[post.text]
       IN  IF article_numbers # <<>>
           THEN \E written \in BOOLEAN :
                   /\ decisions' = Append(decisions,
                          [post_id |-> post.id,
                           article_numbers |-> article_numbers,
                           decision_file |-> written])
                   /\ new_decisions' = IF written THEN new_decisions + 1
                                                  ELSE new_decisions
           ELSE UNCHANGED <<decisions, new_decisions>>
    /\ new_processed' = Append(new_processed, posts[position].id)
    /\ position' = position + 1
    /\ UNCHANGED <<bot_token, processed_file, posts, processed_posts, runPc,
                   result, notRun>>

\* one turn of the loop for a post whose id is in processed_posts
SkipProcessed ==
    /\ runPc = "loop"
    /\ position <= Len(posts)
    /\ IsProcessed(posts[position].id, processed_posts)
    /\ position' = position + 1
    /\ UNCHANGED <<bot_token, processed_file, posts, processed_posts,
                   new_processed, classified, decisions, new_decisions, runPc,
                   result, notRun>>

\* after the loop: save_processed_posts(new_processed), which writes the
\* file or logs the exception and leaves it; return True, and the locals of
\* the run are gone
RunEnd ==
    /\ runPc = "loop"
    /\ position > Len(posts)
    /\ \E saved \in BOOLEAN :
           processed_file' =
               IF saved
               THEN [exists |-> TRUE, processed_posts |-> new_processed]
               ELSE processed_file
    /\ runPc' = "idle"
    /\ result' = "True"
    /\ posts' = <<>>
    /\ processed_posts' = <<>>
    /\ new_processed' = <<>>
    /\ position' = 1
    /\ classified' = <<>>
    /\ decisions' = <<>>
    /\ new_decisions' = 0
    /\ UNCHANGED <<bot_token, notRun>>

RunNext ==
    \/ RunNoToken
    \/ RunNoPosts
    \/ RunBegin
    \/ ProcessNew
    \/ SkipProcessed
    \/ RunEnd

(***************************************************************************)
(* Specifications: one per pipeline, the others at rest                    *)
(***************************************************************************)
SlugInit == SlugStart /\ ClassIdle /\ SegIdle /\ RunIdle
SpecSlug == SlugInit /\ [][SlugNext]_vars

ClassInit == ClassStart /\ SlugIdle /\ SegIdle /\ RunIdle
SpecClassify == ClassInit /\ [][ClassNext]_vars

SegInit == SegStart /\ SlugIdle /\ ClassIdle /\ RunIdle
SpecSegment == SegInit /\ [][SegNext]_vars

Init == RunStart /\ SlugIdle /\ ClassIdle /\ SegIdle
Next == RunNext
Spec == Init /\ [][Next]_vars

(***************************************************************************)
(* Claims about create_slug                                                *)
(***************************************************************************)
\* C2: create_slug is idempotent on its own output:
\* create_slug(create_slug(x)) = create_slug(x) for every title x, also
\* when the transliterated title is cut by the final truncation.
C2_SlugIdempotent == slugPc = "reslugged" => reslug = slug

\* C3: every slug has length <= 50, holds only characters of [a-z0-9-],
\* and neither starts nor ends with a hyphen.
C3_SlugShape ==
    slugPc # "input" =>
        /\ Len(slug) <= 50
        /\ \A i \in 1..Len(slug) :
               slug[i] \in 97..122 \/ slug[i] \in 48..57 \/ slug[i] = 45
        /\ slug # <<>> => slug[1] # 45 /\ slug[Len(slug)] # 45


(***************************************************************************)
(* Claims about detect_articles and _contextual_analysis                   *)
(***************************************************************************)
\* C1: the list detect_articles returns is strictly ascending (so it has no
\* duplicates) and each of its elements n satisfies 1 <= n <= 447.
C1_DetectedAscendingInRange ==
    classPc = "done" =>
        /\ \A i \in 1..Len(detected) : 1 <= detected[i] /\ detected[i] <= 447
        /\ \A i \in 1..(Len(detected) - 1) : detected[i] < detected[i + 1]

\* a classified text to whose result all three passes contributed
C1_Witness ==
    /\ classPc = "done"
    /\ PatternPass(lower(text)) # {}
    /\ KeywordPass(lower(text)) # {}
    /\ context # <<>>
    /\ Len(detected) >= 3

\* the indices of the topics whose keyword is a substring of the text that
\* _contextual_analysis is given (the lower-cased post text)
C9_TopicsHit ==
    LET t == lower(text)
    IN  {c \in 1..Len(CONTEXTS) : Contains(t, CONTEXTS[c].key)}

\* every hit topic with the indices of its first 2 article numbers
C9_SlotsOf(hit) ==
    {x \in hit \X (1..2) : x[2] <= Len(CONTEXTS[x[1]].articles)}

\* the place of slot x in the concatenation taken in topic order
C9_Place(slots, x) ==
    1 + Cardinality({y \in slots :
                        y[1] < x[1] \/ (y[1] = x[1] /\ y[2] < x[2])})

\* C9: _contextual_analysis returns at most 5 article numbers: exactly the
\* first 5 elements of the concatenation, in topic order, of the first 2
\* article numbers of every topic whose keyword is in the text.
C9_ContextFirstFive ==
    classPc = "done" =>
        LET slots == C9_SlotsOf(C9_TopicsHit)
            n == Cardinality(slots)
        IN  /\ Len(context) <= 5
            /\ Len(context) = IF n < 5 THEN n ELSE 5
            /\ \A x \in slots :
                   LET k == C9_Place(slots, x)
                   IN  k <= 5 => context[k] = CONTEXTS[x[1]].articles[x[2]]

\* a text with more than 5 candidate numbers, cut to 5
C9_Witness ==
    /\ classPc = "done"
    /\ Cardinality(C9_SlotsOf(C9_TopicsHit)) > 5
    /\ Len(context) = 5

\* some pattern matches, or some keyword or topic phrase occurs in the text
C10_Evidence ==
    LET t == lower(text)
    IN  \/ \E k \in 1..4 : \E p \in 1..Len(t) : PatternAt(k, t, p).end > 0
        \/ \E c \in 1..Len(CONTEXTS) :
               \E p \in 1..Len(t) : LitAt(t, p, CONTEXTS[c].key)
        \/ \E a \in 1..Len(ARTICLE_KEYWORDS) :
               \E j \in 1..Len(ARTICLE_KEYWORDS[a].keywords) :
                   \E p \in 1..Len(t) :
                       LitAt(t, p, ARTICLE_KEYWORDS[a].keywords[j])

\* C10: detect_articles returns a list for every text, and the list is empty
\* for the empty string and for every text in which no citation pattern
\* matches and no keyword or topic phrase occurs.
C10_TotalAndEmpty ==
    classPc = "done" =>
        /\ detected \in Seq(Int)
        /\ text = <<>> => detected = <<>>
        /\ detected # <<>> => C10_Evidence

\* a non-empty text without evidence, classified to the empty list
C10_Witness ==
    classPc = "done" /\ text # <<>> /\ ~C10_Evidence /\ detected = <<>>

(***************************************************************************)
(* Claims about parse_structure                                            *)
(***************************************************************************)
\* C5: the article records are returned sorted in non-decreasing order of
\* number; the records of one number are all kept and stay in the order of
\* their matches in the document.
C5_SortedStable ==
    segPc = "parsed" =>
        /\ \A i \in 1..(Len(articles) - 1) :
               articles[i].number <= articles[i + 1].number
        /\ Len(articles) = Len(found)
        /\ \A i \in 1..Len(found) :
               processed[i].number = IntOf(found[i].number, 1, Len(found[i].number))
        /\ \A n \in {processed[i].number : i \in 1..Len(processed)} :
               SelectSeq(articles, LAMBDA r : r.number = n)
                   = SelectSeq(processed, LAMBDA r : r.number = n)

\* two different records of one number were kept and the sort moved a record
C5_Witness ==
    /\ segPc = "parsed"
    /\ articles # processed
    /\ \E i \in 1..(Len(articles) - 1) :
           /\ articles[i].number = articles[i + 1].number
           /\ articles[i] # articles[i + 1]

\* C6: every article record has number >= 1, whatever the document holds
\* (also a header numbered 0 or written with leading zeros).
C6_NumbersPositive ==
    segPc = "parsed" => \A i \in 1..Len(articles) : articles[i].number >= 1

\* the body of a record against the normalized source body src: cut to its
\* first 2000 characters and "..." if src is longer than 2000, else src
C7_BodyOf(body, src) ==
    /\ Len(src) > 2000 =>
           /\ Len(body) = 2003
           /\ \A j \in 1..2000 : body[j] = src[j]
           /\ \A j \in 2001..2003 : body[j] = 46
    /\ Len(src) <= 2000 => body = src
    /\ Len(body) <= 2003

\* C7 as stated: the source body is the text of group 3 with its whitespace
\* runs collapsed.
C7_BodyOfCollapsed ==
    segPc = "parsed" =>
        /\ \A k \in 1..Len(articles) : articles[k] \in SeqElems(processed)
        /\ \A i \in 1..Len(found) :
               C7_BodyOf(processed[i].content, sub_spaces(found[i].content, 32))

\* C7 as amended: the source body is the text of group 3 with its whitespace
\* runs collapsed and with the whitespace at its two ends stripped.
C7_BodyOfCollapsedStripped ==
    segPc = "parsed" =>
        /\ \A k \in 1..Len(articles) : articles[k] \in SeqElems(processed)
        /\ \A i \in 1..Len(found) :
               C7_BodyOf(processed[i].content,
                         strip(sub_spaces(found[i].content, 32)))

\* a document with a body that was cut and a body that was not
C7_Witness ==
    /\ segPc = "parsed"
    /\ \E k \in 1..Len(articles) : Len(articles[k].content) = 2003
    /\ \E k \in 1..Len(articles) : Len(articles[k].content) < 2000

\* the example document of the spec
C8_Example ==
    <<1057, 1090, 1072, 1090, 1090, 1103, 32, 49, 56, 53, 46, 32, 1050, 1088, 1072, 1076, 1110, 1078, 1082, 1072, 46, 32, 1058, 1072, 1108, 1084, 1085, 1077, 32, 1074, 1080, 1082, 1088, 1072, 1076, 1077, 1085, 1085, 1103, 32, 1095, 1091, 1078, 1086, 1075, 1086, 32, 1084, 1072, 1081, 1085, 1072, 46, 32, 1057, 1090, 1072, 1090, 1090, 1103, 32, 49, 56, 54, 46, 32, 1043, 1088, 1072, 1073, 1110, 1078, 46, 32, 1042, 1110, 1076, 1082, 1088, 1080, 1090, 1077, 32, 1074, 1080, 1082, 1088, 1072, 1076, 1077, 1085, 1085, 1103, 46>>

\* C8: a document made of consecutive units "Стаття <n>. <Title>. <Body>"
\* yields one record per unit, with the unit's number, its whole title and
\* its body; the example document yields number 185 titled "Крадіжка", then
\* number 186 titled "Грабіж".
C8_UnitsToRecords ==
    (segPc = "parsed" /\ \A i \in 1..Len(units) : units[i].head = <<1057, 1090, 1072, 1090, 1090, 1103, 32>>) =>
        /\ Len(found) = Len(units)
        /\ \A i \in 1..Len(units) :
               /\ processed[i].number = IntOf(units[i].num, 1, Len(units[i].num))
               /\ processed[i].title = units[i].title
               /\ Len(units[i].body) <= 2000 => processed[i].content = units[i].body
        /\ doc = C8_Example =>
               /\ Len(articles) = 2
               /\ articles[1].number = 185 /\ articles[1].title = <<1050, 1088, 1072, 1076, 1110, 1078, 1082, 1072>>
               /\ articles[2].number = 186 /\ articles[2].title = <<1043, 1088, 1072, 1073, 1110, 1078>>

\* C11: parse_structure takes its matches from exactly one rule, the first
\* in the listed order that yields a match: the matches of rule 2 are used
\* only when rule 1 yields none and are never added to those of rule 1;
\* when no rule matches, the article sequence is empty.
C11_FirstRuleOnly ==
    segPc = "parsed" =>
        LET s == normalize(doc)
            rule1 == Matches(1, s)
            rule2 == Matches(2, s)
        IN  /\ rule1 # <<>> => found = rule1
            /\ rule1 = <<>> => found = rule2
            /\ (rule1 = <<>> /\ rule2 = <<>>) => articles = <<>>
            /\ Len(articles) = Len(found)

\* a parsed document in which rule 1 matches and rule 2 has matches of its
\* own, none of which is among the matches used
C11_Witness ==
    /\ segPc = "parsed"
    /\ found # <<>>
    /\ found = Matches(1, normalize(doc))
    /\ LET rule2 == Matches(2, normalize(doc))
       IN  /\ rule2 # <<>>
           /\ \A i \in 1..Len(rule2) : \A j \in 1..Len(found) :
                  rule2[i] # found[j]

\* C12: the text the normalization step of parse_structure hands to the
\* pattern matching has every whitespace run collapsed to one space (no two
\* adjacent whitespace characters, each of them a space) and holds none of
\* U+00A0, U+2000..U+200B, U+2028, U+2029.
C12_Normalized ==
    segPc = "parsed" =>
        LET s == normalize(doc)
        IN  \A i \in 1..Len(s) :
                /\ ~IsInvisible(s[i])
                /\ IsSpace(s[i]) => s[i] = 32
                /\ i < Len(s) => ~(IsSpace(s[i]) /\ IsSpace(s[i + 1]))

(***************************************************************************)
(* Claims about the intake run                                             *)
(***************************************************************************)
\* C4: in a run, a post whose id is in the ledger loaded at the start of
\* the run is neither classified nor passed to the sink: no decision record
\* is emitted for that id.
C4_SeenNotEmitted ==
    \A i \in 1..Len(processed_posts) :
        /\ \A j \in 1..Len(classified) : classified[j] # processed_posts[i]
        /\ \A j \in 1..Len(decisions) :
               decisions[j].post_id # processed_posts[i]

\* a run at the end of its loop over a batch with a post of a seen id, whose
\* text cites an article, and with a new post for which a decision was
\* emitted
C4_Witness ==
    /\ AfterLoop
    /\ decisions # <<>>
    /\ \E i \in 1..Len(posts) :
           /\ IsProcessed(posts[i].id, processed_posts)
           /\ Classification[posts[i].text] # <<>>

\* the list holds no id twice
C13_NoRepeat(ids) ==
    \A i \in 1..Len(ids) : \A j \in 1..Len(ids) : ids[i] = ids[j] => i = j

\* C13: the ledger behaves as a set, also for a batch that holds a new id
\* more than once: no id is classified twice, no id is appended to the ledger
\* twice (the list the run saves and the saved file hold no id twice), and at
\* most one decision record is emitted per id.
C13_LedgerIsSet ==
    /\ C13_NoRepeat(classified)
    /\ C13_NoRepeat(new_processed)
    /\ C13_NoRepeat(processed_file.processed_posts)
    /\ C13_NoRepeat([j \in 1..Len(decisions) |-> decisions[j].post_id])

\* the posts of the batch that the run found new and with articles
C14_ToSink ==
    SelectSeq(posts, LAMBDA p : /\ ~IsProcessed(p.id, processed_posts)
                                /\ Classification[p.text] # <<>>)

\* the list holds the ids the run loaded, in place, and the id of every post
C14_MarksAll(ledger) ==
    /\ Len(ledger) >= Len(processed_posts)
    /\ \A i \in 1..Len(processed_posts) : ledger[i] = processed_posts[i]
    /\ \A i \in 1..Len(posts) : IsProcessed(posts[i].id, ledger)

\* C14: in a run that fetched at least one post, the ledger saved at the end
\* holds every id that was loaded and the id of every post of the batch,
\* whatever happened to the post: the sink is called exactly for the new
\* posts with a non-empty classification (never for a post without
\* articles), and a post whose decision file was not written is marked seen
\* as well. What the run writes to the ledger file is that list.
C14_AllMarkedSeen ==
    /\ [](AfterLoop =>
            /\ posts # <<>>
            /\ C14_MarksAll(new_processed)
            /\ Len(decisions) = Len(C14_ToSink)
            /\ \A k \in 1..Len(decisions) :
                  /\ decisions[k].post_id = C14_ToSink[k].id
                  /\ decisions[k].article_numbers
                         = Classification[C14_ToSink[k].text]
                  /\ IsProcessed(decisions[k].post_id, new_processed))
    /\ [][(AfterLoop /\ processed_file' # processed_file) =>
            /\ processed_file'.exists
            /\ processed_file'.processed_posts = new_processed
            /\ C14_MarksAll(processed_file'.processed_posts)]_vars

\* a run at the end of its loop, with a loaded ledger that is not empty, a
\* new post without articles and a new post whose decision file was not
\* written
C14_Witness ==
    /\ AfterLoop
    /\ processed_posts # <<>>
    /\ \E i \in 1..Len(posts) :
           /\ ~IsProcessed(posts[i].id, processed_posts)
           /\ Classification[posts[i].text] = <<>>
    /\ \E k \in 1..Len(decisions) : ~decisions[k].decision_file

====
